---------------------------- MODULE Spec2Model ----------------------------
(***************************************************************************)
(* A model of the broadband speedtest skid (src/src/bb_speed/main.py).     *)
(*                                                                         *)
(* The pure functions of the skid are checked each under a specification   *)
(* of its own, whose initial states draw the function's inputs from small  *)
(* sets and whose actions apply the function:                              *)
(*   SpecClassify  _classify_speedtest_data                                *)
(*   SpecJitter    _jitter_df / _jitter_row                                *)
(*   SpecCounty    _calc_county_summary                                    *)
(*   SpecCensus    _load_census_data                                       *)
(* and process() is checked under SpecRun, where two invocations of the    *)
(* cloud function run against one feature layer.                           *)
(*                                                                         *)
(* Text is modelled as a sequence of one-character strings, so that        *)
(* concatenation, title-casing and int() are computed, not assumed.        *)
(***************************************************************************)
EXTENDS Integers, Sequences, FiniteSets, TLC

VARIABLES
    \* SpecClassify: the dataframe handed to the classifier and the call's outcome
    speedtest_df, classify_calls, classify_error, first_classification,
    \* SpecJitter: the shape dicts (a heap: SHAPE cells hold references into
    \* it), the dataframe being jittered, the two ranges, and per h3_12 group
    \* the state of its _jitter_df call
    shapes, dataframe, original_xy, group_range, individual_range,
    jitter_calls, current_group, pending_rows,
    \* SpecCounty: the two arguments of _calc_county_summary and its outcome
    household_df, all_tests_df, county_summary, county_state,
    \* SpecCensus: the Census response and the outcome of _load_census_data
    census_payload, census_df, census_state,
    \* SpecRun: the secrets folders that exist, how many records the speedtest
    \* API holds, the hosted feature layer of points, and for every invocation
    \* of process() its position, the exception that ended it, what
    \* _get_secrets did, the effects it has had so far and its local variables
    secret_paths, submitted, feature_layer,
    pc, error, secrets, consulted, events, locals, overlapped

classifyVars == <<speedtest_df, classify_calls, classify_error, first_classification>>

jitterVars == <<shapes, dataframe, original_xy, group_range, individual_range,
                jitter_calls, current_group, pending_rows>>

countyVars == <<household_df, all_tests_df, county_summary, county_state>>

censusVars == <<census_payload, census_df, census_state>>

runVars == <<secret_paths, submitted, feature_layer,
             pc, error, secrets, consulted, events, locals, overlapped>>

vars == <<classifyVars, jitterVars, countyVars, censusVars, runVars>>

\* What a step of one function leaves alone: the variables of the others.
exceptClassify == <<jitterVars, countyVars, censusVars, runVars>>
exceptJitter == <<classifyVars, countyVars, censusVars, runVars>>
exceptCounty == <<classifyVars, jitterVars, censusVars, runVars>>
exceptCensus == <<classifyVars, jitterVars, countyVars, runVars>>
exceptRun == <<classifyVars, jitterVars, countyVars, censusVars>>

(***************************************************************************)
(* Bounds of the model.                                                    *)
(***************************************************************************)
\* Longest dataframe handed to the classifier.
MaxBatch == 2
\* Most speedtest records handed to the county summary.
MaxTests == 4
\* Most data rows in a Census response.
MaxCensusRows == 2

(***************************************************************************)
(* Cell values of a numeric dataframe column.  A speed read from the XML   *)
(* is a number, missing (NaN / None), or text that did not parse as a      *)
(* number (the column then has dtype object).                              *)
(***************************************************************************)
Num(n) == [t |-> "num", n |-> n]
NaN == [t |-> "nan", n |-> 0]
Text == [t |-> "str", n |-> 0]

IsNum(v) == v.t = "num"
IsNull(v) == v.t = "nan"
IsText(v) == v.t = "str"

\* pandas comparisons: a missing value compares False with everything;
\* text against a number raises (see Comparable).
Ge(v, k) == IsNum(v) /\ v.n >= k
Lt(v, k) == IsNum(v) /\ v.n < k

(***************************************************************************)
(* _classify_speedtest_data                                                *)
(***************************************************************************)
\* The three boolean columns of `conditions`, for one row.
Condition1(row) == Ge(row.dl, 100) /\ Ge(row.ul, 20)

Condition2(row) ==
    \/ (Ge(row.dl, 100) /\ (Lt(row.ul, 20) /\ Ge(row.ul, 3)))
    \/ (Ge(row.ul, 3) /\ (Lt(row.dl, 100) /\ Ge(row.dl, 20)))

\* A third rule that asks for both speeds to be low.
Condition3Both(row) == Lt(row.dl, 25) /\ Lt(row.ul, 3)

Condition3(row) == Lt(row.dl, 25) \/ Lt(row.ul, 3)

conditions(row) == <<Condition1(row), Condition2(row), Condition3(row)>>

choices == <<"above 100/20", "between 100/20 and 25/3", "under 25/3">>

DefaultChoice == "n/a"

\* np.select for one row: the choice of the first condition that is True,
\* the default when none is.
RECURSIVE SelectFrom(_, _, _, _)
SelectFrom(conds, chs, default, i) ==
    IF i > Len(conds) THEN default
    ELSE IF conds[i] THEN chs[i]
    ELSE SelectFrom(conds, chs, default, i + 1)

\* np.select with the precedence reversed: the last matching condition wins.
RECURSIVE SelectLast(_, _, _, _)
SelectLast(conds, chs, default, i) ==
    IF i < 1 THEN default
    ELSE IF conds[i] THEN chs[i]
    ELSE SelectLast(conds, chs, default, i - 1)

np_select_last(conds, chs, default) == SelectLast(conds, chs, default, Len(conds))

np_select(conds, chs, default) == SelectFrom(conds, chs, default, 1)

\* The comparisons are evaluated on whole columns: one text cell in dl or
\* ul makes `speedtest_df['dl'] >= 100` raise TypeError for the call.
Comparable(df) == \A i \in 1..Len(df) : ~IsText(df[i].dl) /\ ~IsText(df[i].ul)

\* A classification that gives every row with a missing speed the default.
ClassificationColumnNullDefault(df) ==
    [i \in 1..Len(df) |->
        IF IsNull(df[i].dl) \/ IsNull(df[i].ul) THEN DefaultChoice
        ELSE np_select(conditions(df[i]), choices, DefaultChoice)]

\* The 'classification' column the call assigns.
ClassificationColumn(df) ==
    [i \in 1..Len(df) |-> np_select(conditions(df[i]), choices, DefaultChoice)]

\* The dataframe the call returns: the input with its 'classification' set.
WithClassification(df) ==
    LET col == ClassificationColumn(df)
    IN  [i \in 1..Len(df) |-> [df[i] EXCEPT !.classification = col[i]]]

\* One call of _classify_speedtest_data(speedtest_df).
ClassifySpeedtestData ==
    /\ classify_error = "none"
    /\ classify_calls < 2
    /\ IF Comparable(speedtest_df)
       THEN /\ speedtest_df' = WithClassification(speedtest_df)
            /\ classify_error' = "none"
            /\ first_classification' =
                 IF classify_calls = 0
                 THEN [i \in 1..Len(speedtest_df) |-> speedtest_df'[i].classification]
                 ELSE first_classification
       ELSE /\ classify_error' = "TypeError"
            /\ UNCHANGED <<speedtest_df, first_classification>>
    /\ classify_calls' = classify_calls + 1
    /\ UNCHANGED exceptClassify

(***************************************************************************)
(* _jitter_df and _jitter_row                                              *)
(***************************************************************************)
\* random.randint(a, b): any integer of a..b, both ends included.
randint(range) == range[1]..range[2]

\* tuple(map(lambda x: random.randint(*range), range(2))): two draws.
RandomPairs(range) == randint(range) \X randint(range)

\* series['SHAPE'] used without .copy(): `shape` is the row's own dict.
ShapeAlias(heap, ref) == [heap |-> heap, ref |-> ref]

\* series['SHAPE'].copy(): a new dict holding the same x and y.
ShapeCopy(heap, ref) == [heap |-> Append(heap, heap[ref]), ref |-> Len(heap) + 1]

\* A shift that applies the group's offset twice.
ShiftedTwice(coordinate, group, individual) == coordinate + group + group + individual

\* shape['x'] + group_x + individual_x (and the same for y).
Shifted(coordinate, group, individual) == coordinate + group + individual

\* A row that draws a group offset of its own instead of using the call's.
RowGroupJitterRedrawn(jitter, range) == RandomPairs(range)

\* The group offset a row is shifted by: the one tuple its _jitter_df call
\* drew and passes to every row through args=(group_jitter, ...).
RowGroupJitter(jitter, range) == {jitter}

\* The row labels of the group with key k, in the dataframe's order.
GroupRows(df, k) == SelectSeq([i \in 1..Len(df) |-> i], LAMBDA i : df[i].h3_12 = k)

GroupKeys(df) == {df[i].h3_12 : i \in 1..Len(df)}

H3Keys == {"8c2681a0a", "8c2681a0b"}

\* groupby sorts the group keys: the order in which the groups are visited.
SortedKeys == <<"8c2681a0a", "8c2681a0b">>

KeyBefore(j, k) ==
    \E a, b \in 1..Len(SortedKeys) : a < b /\ SortedKeys[a] = j /\ SortedKeys[b] = k

\* groupby('h3_12').apply calls _jitter_df(group, group_range, individual_range):
\* the call draws the group's offset and starts applying _jitter_row.
JitterDf(k) ==
    /\ current_group = "none"
    /\ k \in GroupKeys(dataframe)
    /\ jitter_calls[k].state = "pending"
    /\ \A j \in GroupKeys(dataframe) : KeyBefore(j, k) => jitter_calls[j].state = "returned"
    /\ \E group_jitter \in RandomPairs(group_range) :
         jitter_calls' = [jitter_calls EXCEPT ![k] =
             [state |-> "running", group_jitter |-> group_jitter,
              group_draws |-> @.group_draws + 1, new_shape |-> <<>>]]
    /\ current_group' = k
    /\ pending_rows' = GroupRows(dataframe, k)
    /\ UNCHANGED <<exceptJitter, shapes, dataframe, original_xy, group_range, individual_range>>

\* _jitter_row(series, group_jitter, individual_range) on the group's next row.
JitterRow ==
    /\ current_group # "none"
    /\ pending_rows # <<>>
    /\ LET i == Head(pending_rows)
           k == current_group
       IN  \E g \in RowGroupJitter(jitter_calls[k].group_jitter, group_range),
              individual \in RandomPairs(individual_range) :
             LET copy == ShapeCopy(shapes, dataframe[i].SHAPE)
                 old == copy.heap[copy.ref]
                 new == [x |-> Shifted(old.x, g[1], individual[1]),
                         y |-> Shifted(old.y, g[2], individual[2])]
             IN  /\ shapes' = [copy.heap EXCEPT ![copy.ref] = new]
                 /\ jitter_calls' = [jitter_calls EXCEPT ![k].new_shape =
                        Append(@, [label |-> i, SHAPE |-> copy.ref])]
    /\ pending_rows' = Tail(pending_rows)
    /\ UNCHANGED <<exceptJitter, dataframe, original_xy, group_range, individual_range,
                   current_group>>

\* _jitter_df returns the group's new shapes as a one-column dataframe.
JitterDfReturn ==
    /\ current_group # "none"
    /\ pending_rows = <<>>
    /\ jitter_calls' = [jitter_calls EXCEPT ![current_group].state = "returned"]
    /\ current_group' = "none"
    /\ UNCHANGED <<exceptJitter, shapes, dataframe, original_xy, group_range,
                   individual_range, pending_rows>>

\* Dataframes to jitter: two submissions from one spot beside a far one, and
\* two groups whose rows alternate.
JitterFrames ==
    { << [x |-> 10, y |-> 20, h3_12 |-> "8c2681a0a"],
         [x |-> 10, y |-> 20, h3_12 |-> "8c2681a0a"],
         [x |-> 500, y |-> -300, h3_12 |-> "8c2681a0b"] >>,
      << [x |-> 0, y |-> 0, h3_12 |-> "8c2681a0b"],
         [x |-> 7, y |-> -7, h3_12 |-> "8c2681a0a"],
         [x |-> 3, y |-> 3, h3_12 |-> "8c2681a0b"] >> }

\* The ranges process() passes to _jitter_df.
ProcessGroupRange == <<-150, 150>>
ProcessIndividualRange == <<-20, 20>>

\* (group_range, individual_range) pairs: scaled-down (-150, 150), (-20, 20)
\* and two one-sided pairs.
JitterRanges ==
    { << <<-1, 1>>, <<-1, 1>> >>,
      << <<-2, 1>>, <<0, 1>> >>,
      << <<-2, 0>>, <<-1, 0>> >> }

NoCall == [state |-> "pending", group_jitter |-> <<0, 0>>, group_draws |-> 0,
           new_shape |-> <<>>]

(***************************************************************************)
(* Text: a Python str is a sequence of one-character strings.              *)
(***************************************************************************)
UpperCase == <<"A", "B", "C", "D", "E", "F", "G", "H", "I", "J", "K", "L", "M",
               "N", "O", "P", "Q", "R", "S", "T", "U", "V", "W", "X", "Y", "Z">>

LowerCase == <<"a", "b", "c", "d", "e", "f", "g", "h", "i", "j", "k", "l", "m",
               "n", "o", "p", "q", "r", "s", "t", "u", "v", "w", "x", "y", "z">>

Digits == <<"0", "1", "2", "3", "4", "5", "6", "7", "8", "9">>

\* The characters in code point order, for comparing strings.
CodePoints == <<" ", "-">> \o Digits \o UpperCase \o LowerCase

\* The position of c in seq, 0 when it is not there.
IndexOf(seq, c) ==
    IF \E i \in 1..Len(seq) : seq[i] = c
    THEN CHOOSE i \in 1..Len(seq) : seq[i] = c
    ELSE 0

IsUpper(c) == IndexOf(UpperCase, c) > 0
IsLower(c) == IndexOf(LowerCase, c) > 0
IsCased(c) == IsUpper(c) \/ IsLower(c)

ToUpper(c) == IF IsLower(c) THEN UpperCase[IndexOf(LowerCase, c)] ELSE c
ToLower(c) == IF IsUpper(c) THEN LowerCase[IndexOf(UpperCase, c)] ELSE c

\* str.capitalize(): the first character upper case, the rest lower case.
StrCapitalize(str) ==
    [i \in 1..Len(str) |-> IF i = 1 THEN ToUpper(str[i]) ELSE ToLower(str[i])]

\* str.title(): a cased character is upper case when it follows an uncased
\* one (or starts the string) and lower case otherwise.
StrTitle(str) ==
    [i \in 1..Len(str) |->
        IF i = 1 \/ ~IsCased(str[i - 1]) THEN ToUpper(str[i]) ELSE ToLower(str[i])]

\* a < b for strings: the code points of the first position that differs.
RECURSIVE StrLess(_, _)
StrLess(a, b) ==
    IF b = <<>> THEN FALSE
    ELSE IF a = <<>> THEN TRUE
    ELSE IF Head(a) = Head(b) THEN StrLess(Tail(a), Tail(b))
    ELSE IndexOf(CodePoints, Head(a)) < IndexOf(CodePoints, Head(b))

\* The strings of a set in ascending order.
RECURSIVE SortedStrings(_)
SortedStrings(S) ==
    IF S = {} THEN <<>>
    ELSE LET least == CHOOSE a \in S : \A b \in S : a = b \/ StrLess(a, b)
         IN  <<least>> \o SortedStrings(S \ {least})

\* int(str) succeeds on a non-empty string of digits.
IsIntLiteral(str) == str # <<>> /\ \A i \in 1..Len(str) : IndexOf(Digits, str[i]) > 0

RECURSIVE ParseInt(_)
ParseInt(str) ==
    IF str = <<>> THEN 0
    ELSE 10 * ParseInt(SubSeq(str, 1, Len(str) - 1)) + (IndexOf(Digits, str[Len(str)]) - 1)

\* A cell of a column that holds integers or strings.
IntCell(n) == [t |-> "int", n |-> n, s |-> <<>>]
StrCell(str) == [t |-> "str", n |-> 0, s |-> str]

(***************************************************************************)
(* _calc_county_summary                                                    *)
(***************************************************************************)
RECURSIVE GCD(_, _)
GCD(a, b) == IF b = 0 THEN a ELSE GCD(b, a % b)

\* tests // total_households: the quotient rounded down.
FloorQuotient(tests, total) ==
    IF total = 0 THEN [num |-> IF tests = 0 THEN 0 ELSE 1, den |-> 0]
    ELSE [num |-> tests \div total, den |-> 1]

\* tests / total_households as numpy divides: the exact ratio (in lowest
\* terms), inf (1/0) for a positive count over zero, nan (0/0) for 0/0.
Quotient(tests, total) ==
    IF total = 0 THEN [num |-> IF tests = 0 THEN 0 ELSE 1, den |-> 0]
    ELSE LET g == GCD(tests, total)
         IN  [num |-> tests \div g, den |-> total \div g]

\* all_tests_df.groupby('county')['id'].count().reset_index(): one row per
\* county, in ascending order of the county, with the count in column id.
CountByCounty(tests_df) ==
    LET keys == SortedStrings({tests_df[i].county : i \in 1..Len(tests_df)})
    IN  [j \in 1..Len(keys) |->
            [county |-> keys[j],
             id |-> Cardinality({i \in 1..Len(tests_df) : tests_df[i].county = keys[j]})]]

\* The rows one left row gives in .merge(household_df, left_on='county',
\* right_on='name') followed by .drop(columns=['county']).rename({'id': 'tests'}).
CountyMatches(counted, households) ==
    LET matches == SelectSeq(households, LAMBDA h : h.name = counted.county)
    IN  [j \in 1..Len(matches) |->
            [tests |-> counted.id,
             total_households |-> matches[j].total_households,
             name |-> matches[j].name]]

\* The inner join: the rows of every left row, in the left rows' order.
RECURSIVE MergeCounty(_, _)
MergeCounty(counts, households) ==
    IF counts = <<>> THEN <<>>
    ELSE CountyMatches(Head(counts), households) \o MergeCounty(Tail(counts), households)

\* astype(int) of one cell.
CanCastInt(cell) == cell.t = "int" \/ IsIntLiteral(cell.s)
CastInt(cell) == IF cell.t = "int" THEN cell.n ELSE ParseInt(cell.s)

\* The value _calc_county_summary returns, when the cast succeeds.
CalcCountySummary(households, tests_df) ==
    LET merged == MergeCounty(CountByCounty(tests_df), households)
    IN  [j \in 1..Len(merged) |->
            LET total == CastInt(merged[j].total_households)
            IN  [tests |-> merged[j].tests,
                 total_households |-> total,
                 name |-> merged[j].name,
                 percent_response |-> Quotient(merged[j].tests, total)]]

\* Whether astype(int) raises ValueError on the merged rows.
CastRaises(households, tests_df) ==
    LET merged == MergeCounty(CountByCounty(tests_df), households)
    IN  \E j \in 1..Len(merged) : ~CanCastInt(merged[j].total_households)

\* One call of _calc_county_summary(household_df, all_tests_df).
CalcCountySummaryCall ==
    /\ county_state = "pending"
    /\ IF CastRaises(household_df, all_tests_df)
       THEN /\ county_state' = "ValueError"
            /\ UNCHANGED county_summary
       ELSE /\ county_state' = "returned"
            /\ county_summary' = CalcCountySummary(household_df, all_tests_df)
    /\ UNCHANGED <<exceptCounty, household_df, all_tests_df>>

WeberCounty == <<"W", "e", "b", "e", "r", " ", "C", "o", "u", "n", "t", "y">>
UtahCounty == <<"U", "t", "a", "h", " ", "C", "o", "u", "n", "t", "y">>
KaneCounty == <<"K", "a", "n", "e", " ", "C", "o", "u", "n", "t", "y">>

\* Household tables: the test's, one as _load_census_data returns it (a
\* string), one with fewer households than tests and a zero, an empty one,
\* one whose count is not a number, and one that names a county twice.
HouseholdTables ==
    { << [total_households |-> IntCell(10), name |-> WeberCounty],
         [total_households |-> IntCell(20), name |-> UtahCounty] >>,
      << [total_households |-> StrCell(<<"8", "7", "8", "0", "2">>), name |-> WeberCounty] >>,
      << [total_households |-> IntCell(1), name |-> UtahCounty],
         [total_households |-> IntCell(0), name |-> WeberCounty] >>,
      << >>,
      << [total_households |-> StrCell(<<"N", "-", "A">>), name |-> UtahCounty],
         [total_households |-> IntCell(3), name |-> WeberCounty] >>,
      << [total_households |-> IntCell(10), name |-> WeberCounty],
         [total_households |-> IntCell(20), name |-> WeberCounty] >> }

TestRows == [county : {WeberCounty, UtahCounty, KaneCounty}, id : {1, 2}]

(***************************************************************************)
(* _load_census_data                                                       *)
(***************************************************************************)
\* fips_df: names_to_fips as a dataframe with columns name and fips.
names_to_fips ==
    << [name |-> <<"B", "E", "A", "V", "E", "R">>, fips |-> <<"4", "9", "0", "0", "1">>],
       [name |-> <<"B", "O", "X", " ", "E", "L", "D", "E", "R">>, fips |-> <<"4", "9", "0", "0", "3">>],
       [name |-> <<"C", "A", "C", "H", "E">>, fips |-> <<"4", "9", "0", "0", "5">>],
       [name |-> <<"C", "A", "R", "B", "O", "N">>, fips |-> <<"4", "9", "0", "0", "7">>],
       [name |-> <<"D", "A", "G", "G", "E", "T", "T">>, fips |-> <<"4", "9", "0", "0", "9">>],
       [name |-> <<"D", "A", "V", "I", "S">>, fips |-> <<"4", "9", "0", "1", "1">>],
       [name |-> <<"D", "U", "C", "H", "E", "S", "N", "E">>, fips |-> <<"4", "9", "0", "1", "3">>],
       [name |-> <<"E", "M", "E", "R", "Y">>, fips |-> <<"4", "9", "0", "1", "5">>],
       [name |-> <<"G", "A", "R", "F", "I", "E", "L", "D">>, fips |-> <<"4", "9", "0", "1", "7">>],
       [name |-> <<"G", "R", "A", "N", "D">>, fips |-> <<"4", "9", "0", "1", "9">>],
       [name |-> <<"I", "R", "O", "N">>, fips |-> <<"4", "9", "0", "2", "1">>],
       [name |-> <<"J", "U", "A", "B">>, fips |-> <<"4", "9", "0", "2", "3">>],
       [name |-> <<"K", "A", "N", "E">>, fips |-> <<"4", "9", "0", "2", "5">>],
       [name |-> <<"M", "I", "L", "L", "A", "R", "D">>, fips |-> <<"4", "9", "0", "2", "7">>],
       [name |-> <<"M", "O", "R", "G", "A", "N">>, fips |-> <<"4", "9", "0", "2", "9">>],
       [name |-> <<"P", "I", "U", "T", "E">>, fips |-> <<"4", "9", "0", "3", "1">>],
       [name |-> <<"R", "I", "C", "H">>, fips |-> <<"4", "9", "0", "3", "3">>],
       [name |-> <<"S", "A", "L", "T", " ", "L", "A", "K", "E">>, fips |-> <<"4", "9", "0", "3", "5">>],
       [name |-> <<"S", "A", "N", " ", "J", "U", "A", "N">>, fips |-> <<"4", "9", "0", "3", "7">>],
       [name |-> <<"S", "A", "N", "P", "E", "T", "E">>, fips |-> <<"4", "9", "0", "3", "9">>],
       [name |-> <<"S", "E", "V", "I", "E", "R">>, fips |-> <<"4", "9", "0", "4", "1">>],
       [name |-> <<"S", "U", "M", "M", "I", "T">>, fips |-> <<"4", "9", "0", "4", "3">>],
       [name |-> <<"T", "O", "O", "E", "L", "E">>, fips |-> <<"4", "9", "0", "4", "5">>],
       [name |-> <<"U", "I", "N", "T", "A", "H">>, fips |-> <<"4", "9", "0", "4", "7">>],
       [name |-> <<"U", "T", "A", "H">>, fips |-> <<"4", "9", "0", "4", "9">>],
       [name |-> <<"W", "A", "S", "A", "T", "C", "H">>, fips |-> <<"4", "9", "0", "5", "1">>],
       [name |-> <<"W", "A", "S", "H", "I", "N", "G", "T", "O", "N">>, fips |-> <<"4", "9", "0", "5", "3">>],
       [name |-> <<"W", "A", "Y", "N", "E">>, fips |-> <<"4", "9", "0", "5", "5">>],
       [name |-> <<"W", "E", "B", "E", "R">>, fips |-> <<"4", "9", "0", "5", "7">>] >>

\* dataframe.columns = dataframe.iloc[0]: a data row's cell in the column
\* the first row names.
Cell(header, cells, column) == cells[IndexOf(header, column)]

\* dataframe['cofips'] = dataframe['state'] + dataframe['county']
CoFips(header, cells) == Cell(header, cells, "state") \o Cell(header, cells, "county")

\* The rows one data row gives in .merge(fips_df, left_on='cofips',
\* right_on='fips') with the name set, the four raw columns dropped and
\* DP02_0001E renamed; the other columns of the response are kept.
CensusMatches(header, cells) ==
    LET matches == SelectSeq(names_to_fips, LAMBDA f : f.fips = CoFips(header, cells))
        kept == {header[p] : p \in 1..Len(header)} \ {"state", "county", "DP02_0001E"}
    IN  [j \in 1..Len(matches) |->
            [c \in kept \cup {"total_households", "name"} |->
                IF c = "name" THEN StrTitle(matches[j].name) \o <<" ", "C", "o", "u", "n", "t", "y">>
                ELSE IF c = "total_households" THEN Cell(header, cells, "DP02_0001E")
                ELSE Cell(header, cells, c)]]

RECURSIVE MergeCensus(_, _)
MergeCensus(header, rows) ==
    IF rows = <<>> THEN <<>>
    ELSE CensusMatches(header, Head(rows)) \o MergeCensus(header, Tail(rows))

\* The value _load_census_data returns for a response: the first row is the
\* header, the rest are the data rows.
LoadCensusData(payload) == MergeCensus(Head(payload), Tail(payload))

\* One call of _load_census_data on the response.
LoadCensusDataCall ==
    /\ census_state = "pending"
    /\ census_df' = LoadCensusData(census_payload)
    /\ census_state' = "returned"
    /\ UNCHANGED <<exceptCensus, census_payload>>

\* The response's columns, in the order the API gives them and in another.
CensusHeaders == { <<"DP02_0001E", "state", "county">>, <<"state", "county", "DP02_0001E">> }

CensusStates == { <<"4", "9">>, <<"0", "4">> }
CensusCounties == { <<"0", "5", "7">>, <<"0", "0", "3">>, <<"0", "3", "5">>, <<"9", "9", "9">> }
CensusHouseholds == { <<"8", "7", "8", "0", "2">>, <<"0">> }

\* A data row under a header: the cells in the header's column order.
CensusRow(header, state, county, households) ==
    [p \in 1..Len(header) |->
        IF header[p] = "state" THEN state
        ELSE IF header[p] = "county" THEN county
        ELSE households]

CensusPayloads ==
    UNION { { <<header>> \o rows :
                rows \in UNION { [1..n -> { CensusRow(header, st, co, hh) :
                                             st \in CensusStates, co \in CensusCounties,
                                             hh \in CensusHouseholds }] :
                                 n \in 0..MaxCensusRows } } :
            header \in CensusHeaders }

\* Speeds around every threshold of the rules, a missing one and a text one.
DlValues == {NaN, Text} \cup {Num(n) : n \in {19, 20, 24, 25, 99, 100}}
UlValues == {NaN, Text} \cup {Num(n) : n \in {2, 3, 19, 20}}

InputRows == [dl : DlValues, ul : UlValues, classification : {"unset"}]

(***************************************************************************)
(* config.py                                                               *)
(***************************************************************************)
\* The names config.py defines.
ConfigAttributes ==
    {"SKID_NAME", "AGOL_ORG", "SENDGRID_SETTINGS", "LOG_LEVEL", "LOG_FILE_NAME",
     "SPEEDTEST_BASE_URL", "CENSUS_URL", "CENSUS_PARAMS", "INSTITUTIONS_TO_REMOVE",
     "FEATURE_LAYER_ITEMID", "COUNTIES_ITEMID", "JOIN_COLUMN",
     "ATTACHMENT_LINK_COLUMN", "ATTACHMENT_PATH_COLUMN", "FIELDS"}

INSTITUTIONS_TO_REMOVE ==
    {"State of Utah", "Utah Education Network", "Utah State University",
     "University of Utah", "Salt Lake City Corporation", "Brigham Young University",
     "Salt Lake Community College"}

(***************************************************************************)
(* _get_secrets                                                            *)
(***************************************************************************)
MountedFolder == "/secrets"
MountedFile == "/secrets/app/secrets.json"
LocalFolder == "bb_speed/secrets"
LocalFile == "bb_speed/secrets/secrets.json"

\* json.loads(path.read_text()): read_text raises FileNotFoundError when the
\* file is not there.  `asked` are the folders whose existence was tested.
ReadSecrets(paths, file, from, asked) ==
    IF file \in paths
    THEN [outcome |-> "loaded", secrets |-> from, consulted |-> asked, read |-> file]
    ELSE [outcome |-> "FileNotFoundError", secrets |-> "none", consulted |-> asked,
          read |-> file]

\* A lookup that tries the local folder before the mount point.
GetSecretsLocalFirst(paths) ==
    IF LocalFolder \in paths
    THEN ReadSecrets(paths, LocalFile, "local", <<LocalFolder>>)
    ELSE IF MountedFolder \in paths
    THEN ReadSecrets(paths, MountedFile, "mounted", <<LocalFolder, MountedFolder>>)
    ELSE [outcome |-> "FileNotFoundError", secrets |-> "none",
          consulted |-> <<LocalFolder, MountedFolder>>, read |-> "none"]

\* _get_secrets(): the mount point first, the local folder otherwise.
GetSecretsFrom(paths) ==
    IF MountedFolder \in paths
    THEN ReadSecrets(paths, MountedFile, "mounted", <<MountedFolder>>)
    ELSE IF LocalFolder \in paths
    THEN ReadSecrets(paths, LocalFile, "local", <<MountedFolder, LocalFolder>>)
    ELSE [outcome |-> "FileNotFoundError", secrets |-> "none",
          consulted |-> <<MountedFolder, LocalFolder>>, read |-> "none"]

(***************************************************************************)
(* process()                                                               *)
(***************************************************************************)
\* The invocations of the cloud function.
Runs == {"run1", "run2"}

\* A point geometry in process(): its spatial reference, whether it is a
\* jittered shape and the spatial reference it was jittered in (0: not
\* jittered).  The coordinates themselves are the subject of SpecJitter.
Geometry(wkid) == [wkid |-> wkid, jittered |-> FALSE, jittered_in |-> 0]

\* The records the speedtest API holds, in the order they were submitted.
\* The second is an institution's; the first two share an h3_12 cell; the
\* last is in a county the Census lookup does not name.
SpeedtestRecords ==
    << [id |-> 1, dl |-> Num(150), ul |-> Num(25), ispinfo |-> "Comcast",
        county |-> WeberCounty, h3_12 |-> "8c2681a0a"],
       [id |-> 2, dl |-> Num(100), ul |-> Num(5), ispinfo |-> "State of Utah",
        county |-> WeberCounty, h3_12 |-> "8c2681a0a"],
       [id |-> 3, dl |-> NaN, ul |-> Num(2), ispinfo |-> "CenturyLink",
        county |-> UtahCounty, h3_12 |-> "8c2681a0b"] >>

\* The Census response for the two counties of the records.
CensusResponse ==
    << <<"DP02_0001E", "state", "county">>,
       << <<"1", "0">>, <<"4", "9">>, <<"0", "5", "7">> >>,
       << <<"2", "0">>, <<"4", "9">>, <<"0", "4", "9">> >> >>

\* _load_speedtest_data: the API's records as a spatial dataframe
\* (from_xy of longitude and latitude: geographic coordinates).
LoadSpeedtestData(count) ==
    [i \in 1..count |->
        [id |-> SpeedtestRecords[i].id,
         dl |-> SpeedtestRecords[i].dl,
         ul |-> SpeedtestRecords[i].ul,
         ispinfo |-> SpeedtestRecords[i].ispinfo,
         county |-> SpeedtestRecords[i].county,
         h3_12 |-> SpeedtestRecords[i].h3_12,
         classification |-> "unset",
         SHAPE |-> Geometry(4326)]]

\* A read of the live layer that returns no feature.
LiveIdsNone(layer) == {}

\* The 'id' column of the layer's live dataframe.
LiveIds(layer) == {layer[i].id : i \in 1..Len(layer)}

\* A selection that keeps every fetched record.
NewDataAll(speedtest, live_ids) == speedtest

\* speedtest_df[~speedtest_df['id'].isin(list(live_df['id']))]
NewData(speedtest, live_ids) == SelectSeq(speedtest, LAMBDA row : row.id \notin live_ids)

\* The filter with nothing to remove.
KeepInstitutions(df) == df

\* df[~df['ispinfo'].isin(config.INSTITUTIONS_TO_REMOVE)], as process() does
\* while the list is not empty.
RemoveInstitutions(df) ==
    IF INSTITUTIONS_TO_REMOVE # {}
    THEN SelectSeq(df, LAMBDA row : row.ispinfo \notin INSTITUTIONS_TO_REMOVE)
    ELSE df

\* A projection that leaves the spatial reference as it was.
Unprojected(df, wkid) == df

\* df.spatial.project(wkid) with df.spatial.sr set to it.
Project(df, wkid) == [i \in 1..Len(df) |-> [df[i] EXCEPT !.SHAPE.wkid = wkid]]

\* groupby('h3_12').apply(_jitter_df, (-150, 150), (-20, 20)), and the new
\* shapes taking the place of the SHAPE column.
Jittered(df) ==
    [i \in 1..Len(df) |->
        [df[i] EXCEPT !.SHAPE = [wkid |-> @.wkid, jittered |-> TRUE, jittered_in |-> @.wkid]]]

\* upload_df: the columns of the jittered dataframe that are uploaded.
UploadColumns(df) ==
    [i \in 1..Len(df) |->
        [id |-> df[i].id, dl |-> df[i].dl, ul |-> df[i].ul, ispinfo |-> df[i].ispinfo,
         county |-> df[i].county, classification |-> df[i].classification,
         SHAPE |-> df[i].SHAPE]]

\* The household dataframe as _calc_county_summary reads it.
AsHouseholds(df) ==
    [i \in 1..Len(df) |->
        [total_households |-> StrCell(df[i].total_households), name |-> df[i].name]]

NoLocals ==
    [live_df |-> {}, speedtest_df |-> <<>>, new_data_df |-> <<>>, cleaned_df |-> <<>>,
     upload_df |-> <<>>, added_features |-> 0, census_household_info_df |-> <<>>,
     all_tests_df |-> <<>>, county_info_df |-> <<>>]

Active(r) == pc[r] \notin {"get_secrets", "failed", "update_counties"}

Fail(r, exception) ==
    /\ pc' = [pc EXCEPT ![r] = "failed"]
    /\ error' = [error EXCEPT ![r] = exception]

Goto(r, next) ==
    /\ pc' = [pc EXCEPT ![r] = next]
    /\ UNCHANGED error

Did(r, event) == events' = [events EXCEPT ![r] = Append(@, event)]

\* process() starts: secrets = SimpleNamespace(**_get_secrets())
GetSecrets(r) ==
    /\ pc[r] = "get_secrets"
    /\ LET got == GetSecretsFrom(secret_paths)
       IN  /\ consulted' = [consulted EXCEPT ![r] = got.consulted]
           /\ secrets' = [secrets EXCEPT ![r] = [source |-> got.secrets, read |-> got.read]]
           /\ IF got.outcome = "loaded"
              THEN Goto(r, "initialize")
              ELSE Fail(r, got.outcome)
    /\ overlapped' = (overlapped \/ \E other \in Runs \ {r} : Active(other))
    /\ UNCHANGED <<exceptRun, secret_paths, submitted, feature_layer, events, locals>>

\* The temporary directory, _initialize (logging, supervisor) and the GIS object.
Initialize(r) ==
    /\ pc[r] = "initialize"
    /\ events' = [events EXCEPT ![r] = @ \o <<"logging_setup", "gis_login">>]
    /\ Goto(r, "get_live")
    /\ UNCHANGED <<exceptRun, secret_paths, submitted, feature_layer, secrets, consulted, locals,
                   overlapped>>

\* live_df = get_live_dataframe(gis, config.FEATURE_LAYER_ITEMID)
GetLiveDataframe(r) ==
    /\ pc[r] = "get_live"
    /\ locals' = [locals EXCEPT ![r].live_df = LiveIds(feature_layer)]
    /\ Did(r, "read_live_points")
    /\ Goto(r, "load_speedtest")
    /\ UNCHANGED <<exceptRun, secret_paths, submitted, feature_layer, secrets, consulted, overlapped>>

\* speedtest_df = _load_speedtest_data(...); new_data_df = the records not live
LoadNewData(r) ==
    /\ pc[r] = "load_speedtest"
    /\ LET speedtest == LoadSpeedtestData(submitted)
       IN  locals' = [locals EXCEPT ![r].speedtest_df = speedtest,
                                    ![r].new_data_df = NewData(speedtest, locals[r].live_df)]
    /\ Did(r, "fetch_speedtest")
    /\ Goto(r, "classify")
    /\ UNCHANGED <<exceptRun, secret_paths, submitted, feature_layer, secrets, consulted, overlapped>>

\* cleaned_df = _classify_speedtest_data(new_data_df), then the institution filter
ClassifyAndClean(r) ==
    /\ pc[r] = "classify"
    /\ IF Comparable(locals[r].new_data_df)
       THEN /\ locals' = [locals EXCEPT ![r].cleaned_df =
                            RemoveInstitutions(WithClassification(locals[r].new_data_df))]
            /\ Did(r, "classify")
            /\ Goto(r, "project_utm")
       ELSE /\ Fail(r, "TypeError")
            /\ UNCHANGED <<locals, events>>
    /\ UNCHANGED <<exceptRun, secret_paths, submitted, feature_layer, secrets, consulted, overlapped>>

\* cleaned_df.spatial.project(26912)
ProjectToUTM(r) ==
    /\ pc[r] = "project_utm"
    /\ locals' = [locals EXCEPT ![r].cleaned_df = Project(@, 26912)]
    /\ Did(r, "project_26912")
    /\ Goto(r, "jitter")
    /\ UNCHANGED <<exceptRun, secret_paths, submitted, feature_layer, secrets, consulted, overlapped>>

\* cleaned_df[['new_SHAPE']] = ...apply(_jitter_df, ...); jittered_df has the
\* new shapes as its SHAPE (kept in cleaned_df here)
Jitter(r) ==
    /\ pc[r] = "jitter"
    /\ locals' = [locals EXCEPT ![r].cleaned_df = Jittered(@)]
    /\ Did(r, "jitter")
    /\ Goto(r, "project_wgs84")
    /\ UNCHANGED <<exceptRun, secret_paths, submitted, feature_layer, secrets, consulted, overlapped>>

\* jittered_df.spatial.project(4326), and upload_df built from it
ProjectToWGS84(r) ==
    /\ pc[r] = "project_wgs84"
    /\ locals' = [locals EXCEPT ![r].upload_df = UploadColumns(Project(locals[r].cleaned_df, 4326))]
    /\ Did(r, "project_4326")
    /\ Goto(r, "add_features")
    /\ UNCHANGED <<exceptRun, secret_paths, submitted, feature_layer, secrets, consulted, overlapped>>

\* added_features = add_features(gis, config.FEATURE_LAYER_ITEMID, upload_df)
AddFeatures(r) ==
    /\ pc[r] = "add_features"
    /\ feature_layer' = feature_layer \o
         [i \in 1..Len(locals[r].upload_df) |->
             [id |-> locals[r].upload_df[i].id,
              classification |-> locals[r].upload_df[i].classification,
              SHAPE |-> locals[r].upload_df[i].SHAPE,
              added_by |-> r]]
    /\ locals' = [locals EXCEPT ![r].added_features = Len(locals[r].upload_df)]
    /\ Did(r, "add_features")
    /\ Goto(r, "load_census")
    /\ UNCHANGED <<exceptRun, secret_paths, submitted, secrets, consulted, overlapped>>

\* census_household_info_df = _load_census_data(config.CENSUS_URL, config.CENSUS_PARAMS)
LoadCensus(r) ==
    /\ pc[r] = "load_census"
    /\ locals' = [locals EXCEPT ![r].census_household_info_df = LoadCensusData(CensusResponse)]
    /\ Did(r, "fetch_census")
    /\ Goto(r, "calc_county")
    /\ UNCHANGED <<exceptRun, secret_paths, submitted, feature_layer, secrets, consulted, overlapped>>

\* all_tests_df = speedtest_df.copy() without the institutions;
\* county_info_df = _calc_county_summary(census_household_info_df, all_tests_df)
CalcCounty(r) ==
    /\ pc[r] = "calc_county"
    /\ LET all_tests == RemoveInstitutions(locals[r].speedtest_df)
           households == AsHouseholds(locals[r].census_household_info_df)
       IN  IF CastRaises(households, all_tests)
           THEN /\ Fail(r, "ValueError")
                /\ UNCHANGED <<locals, events>>
           ELSE /\ locals' = [locals EXCEPT
                                ![r].all_tests_df = all_tests,
                                ![r].county_info_df = CalcCountySummary(households, all_tests)]
                /\ Did(r, "calc_county_summary")
                /\ Goto(r, "get_live_counties")
    /\ UNCHANGED <<exceptRun, secret_paths, submitted, feature_layer, secrets, consulted, overlapped>>

\* live_counties_df = get_live_dataframe(gis, config.COUNTIES_ITMEID): the
\* attribute is looked up in config before the call is made.
GetLiveCounties(r) ==
    /\ pc[r] = "get_live_counties"
    /\ IF "COUNTIES_ITMEID" \in ConfigAttributes
       THEN /\ Did(r, "read_live_counties")
            /\ Goto(r, "update_counties")
       ELSE /\ Fail(r, "AttributeError")
            /\ UNCHANGED events
    /\ UNCHANGED <<exceptRun, secret_paths, submitted, feature_layer, secrets, consulted, locals,
                   overlapped>>

\* The positions at which process() waits for an external service.
ExternalCalls == {"initialize", "get_live", "load_speedtest", "add_features", "load_census"}

\* A call to an external service fails: the exception ends the run.
ExternalCallFails(r) ==
    /\ pc[r] \in ExternalCalls
    /\ Fail(r, "ConnectionError")
    /\ UNCHANGED <<exceptRun, secret_paths, submitted, feature_layer, secrets, consulted, events,
                   locals, overlapped>>

\* Somebody submits a speedtest: the API holds one more record.
Submit ==
    /\ submitted < Len(SpeedtestRecords)
    /\ submitted' = submitted + 1
    /\ UNCHANGED <<exceptRun, secret_paths, feature_layer, pc, error, secrets, consulted, events,
                   locals, overlapped>>

\* The secrets folders and files there can be: a file only in its folder.
SecretPathSets ==
    {paths \in SUBSET {MountedFolder, MountedFile, LocalFolder, LocalFile} :
        /\ MountedFile \in paths => MountedFolder \in paths
        /\ LocalFile \in paths => LocalFolder \in paths}

(***************************************************************************)
(* The specifications: each draws its function's inputs in its initial     *)
(* states and leaves the other functions' variables idle.                  *)
(***************************************************************************)
ClassifyIdle ==
    /\ speedtest_df = <<>>
    /\ classify_calls = 0
    /\ classify_error = "none"
    /\ first_classification = <<>>

JitterIdle ==
    /\ shapes = <<>>
    /\ dataframe = <<>>
    /\ original_xy = <<>>
    /\ group_range = <<0, 0>>
    /\ individual_range = <<0, 0>>
    /\ jitter_calls = [k \in H3Keys |-> NoCall]
    /\ current_group = "none"
    /\ pending_rows = <<>>

CountyIdle ==
    /\ household_df = <<>>
    /\ all_tests_df = <<>>
    /\ county_summary = <<>>
    /\ county_state = "pending"

CensusIdle ==
    /\ census_payload = <<>>
    /\ census_df = <<>>
    /\ census_state = "pending"

RunIdle ==
    /\ secret_paths = {}
    /\ submitted = 0
    /\ feature_layer = <<>>
    /\ pc = [r \in Runs |-> "get_secrets"]
    /\ error = [r \in Runs |-> "none"]
    /\ secrets = [r \in Runs |-> [source |-> "none", read |-> "none"]]
    /\ consulted = [r \in Runs |-> <<>>]
    /\ events = [r \in Runs |-> <<>>]
    /\ locals = [r \in Runs |-> NoLocals]
    /\ overlapped = FALSE

InitClassify ==
    /\ speedtest_df \in UNION {[1..n -> InputRows] : n \in 0..MaxBatch}
    /\ classify_calls = 0
    /\ classify_error = "none"
    /\ first_classification = <<>>
    /\ JitterIdle
    /\ CountyIdle
    /\ CensusIdle
    /\ RunIdle

NextClassify == ClassifySpeedtestData

SpecClassify == InitClassify /\ [][NextClassify]_vars

InitJitter ==
    /\ \E frame \in JitterFrames :
         /\ shapes = [i \in 1..Len(frame) |-> [x |-> frame[i].x, y |-> frame[i].y]]
         /\ dataframe = [i \in 1..Len(frame) |-> [SHAPE |-> i, h3_12 |-> frame[i].h3_12]]
         /\ original_xy = [i \in 1..Len(frame) |-> [x |-> frame[i].x, y |-> frame[i].y]]
    /\ \E ranges \in JitterRanges :
         /\ group_range = ranges[1]
         /\ individual_range = ranges[2]
    /\ jitter_calls = [k \in H3Keys |-> NoCall]
    /\ current_group = "none"
    /\ pending_rows = <<>>
    /\ ClassifyIdle
    /\ CountyIdle
    /\ CensusIdle
    /\ RunIdle

NextJitter ==
    \/ \E k \in H3Keys : JitterDf(k)
    \/ JitterRow
    \/ JitterDfReturn

SpecJitter == InitJitter /\ [][NextJitter]_vars

InitCounty ==
    /\ household_df \in HouseholdTables
    /\ all_tests_df \in UNION {[1..n -> TestRows] : n \in 0..MaxTests}
    /\ county_summary = <<>>
    /\ county_state = "pending"
    /\ ClassifyIdle
    /\ JitterIdle
    /\ CensusIdle
    /\ RunIdle

NextCounty == CalcCountySummaryCall

SpecCounty == InitCounty /\ [][NextCounty]_vars

InitCensus ==
    /\ census_payload \in CensusPayloads
    /\ census_df = <<>>
    /\ census_state = "pending"
    /\ ClassifyIdle
    /\ JitterIdle
    /\ CountyIdle
    /\ RunIdle

NextCensus == LoadCensusDataCall

SpecCensus == InitCensus /\ [][NextCensus]_vars

InitRun ==
    /\ secret_paths \in SecretPathSets
    /\ submitted = 0
    /\ feature_layer = <<>>
    /\ pc = [r \in Runs |-> "get_secrets"]
    /\ error = [r \in Runs |-> "none"]
    /\ secrets = [r \in Runs |-> [source |-> "none", read |-> "none"]]
    /\ consulted = [r \in Runs |-> <<>>]
    /\ events = [r \in Runs |-> <<>>]
    /\ locals = [r \in Runs |-> NoLocals]
    /\ overlapped = FALSE
    /\ ClassifyIdle
    /\ JitterIdle
    /\ CountyIdle
    /\ CensusIdle

NextRun ==
    \/ \E r \in Runs :
         \/ GetSecrets(r)
         \/ Initialize(r)
         \/ GetLiveDataframe(r)
         \/ LoadNewData(r)
         \/ ClassifyAndClean(r)
         \/ ProjectToUTM(r)
         \/ Jitter(r)
         \/ ProjectToWGS84(r)
         \/ AddFeatures(r)
         \/ LoadCensus(r)
         \/ CalcCounty(r)
         \/ GetLiveCounties(r)
         \/ ExternalCallFails(r)
    \/ Submit

SpecRun == InitRun /\ [][NextRun]_vars

(***************************************************************************)
(* Properties of the classifier (SpecClassify).                            *)
(***************************************************************************)
Classified == classify_calls >= 1 /\ classify_error = "none"

\* The tag the ordered rule list gives a numeric (dl, ul) pair.
RuleTag(dl, ul) ==
    IF dl >= 100 /\ ul >= 20 THEN "above 100/20"
    ELSE IF (dl >= 100 /\ 3 <= ul /\ ul < 20) \/ (ul >= 3 /\ 20 <= dl /\ dl < 100)
         THEN "between 100/20 and 25/3"
    ELSE IF dl < 25 \/ ul < 3 THEN "under 25/3"
    ELSE "n/a"

BothNumeric(row) == IsNum(row.dl) /\ IsNum(row.ul)

HasNull(row) == IsNull(row.dl) \/ IsNull(row.ul)

Unset(row) == [row EXCEPT !.classification = "unset"]

\* C1: every record with numeric dl and ul carries exactly the tag of the
\* first matching rule (above 100/20, then between 100/20 and 25/3, then
\* under 25/3, else n/a), with inclusive thresholds (100/20 is above, 25/3
\* is not under); the tag is the one the record gets when classified alone,
\* and classifying the batch a second time leaves every tag as it was.
C1_FirstMatchingRule ==
    Classified =>
        /\ \A i \in 1..Len(speedtest_df) :
             LET row == speedtest_df[i]
             IN  BothNumeric(row) =>
                   /\ row.classification = RuleTag(row.dl.n, row.ul.n)
                   /\ row.classification = ClassificationColumn(<<Unset(row)>>)[1]
                   /\ (row.dl.n = 100 /\ row.ul.n = 20 => row.classification = "above 100/20")
                   /\ (row.dl.n = 25 /\ row.ul.n = 3 => row.classification # "under 25/3")
        /\ Len(first_classification) = Len(speedtest_df)
        /\ \A i \in 1..Len(speedtest_df) :
             speedtest_df[i].classification = first_classification[i]

\* C1 witness: a batch classified twice that holds the two boundary records.
C1_Witness ==
    /\ classify_calls = 2
    /\ classify_error = "none"
    /\ Len(speedtest_df) = 2
    /\ speedtest_df[1].dl = Num(100) /\ speedtest_df[1].ul = Num(20)
    /\ speedtest_df[1].classification = "above 100/20"
    /\ speedtest_df[2].dl = Num(25) /\ speedtest_df[2].ul = Num(3)
    /\ speedtest_df[2].classification = "between 100/20 and 25/3"

RuleTags == {choices[i] : i \in 1..Len(choices)}

\* C15: the three rules leave no numeric pair out.  In a classified batch
\* every record whose dl and ul are both numbers satisfies one of the three
\* conditions and carries one of the three rule tags, and a record tagged
\* n/a has a missing dl or ul.
C15_RulesExhaustive ==
    Classified =>
        \A i \in 1..Len(speedtest_df) :
            LET row == speedtest_df[i]
            IN  /\ BothNumeric(row) =>
                     /\ \E c \in 1..Len(conditions(row)) : conditions(row)[c]
                     /\ row.classification \in RuleTags
                /\ row.classification = DefaultChoice => HasNull(row)
                /\ row.classification \in RuleTags \cup {DefaultChoice}

\* C15 witness: a classified batch with a numeric record that only the
\* third rule's download test matches (19/3, under 25/3) beside a record
\* without a download speed (n/a).
C15_Witness ==
    /\ Classified
    /\ Len(speedtest_df) = 2
    /\ speedtest_df[1].dl = Num(19) /\ speedtest_df[1].ul = Num(3)
    /\ speedtest_df[1].classification = "under 25/3"
    /\ speedtest_df[2].dl = NaN /\ speedtest_df[2].ul = Num(20)
    /\ speedtest_df[2].classification = DefaultChoice

(***************************************************************************)
(* Properties of the jitter engine (SpecJitter).                           *)
(***************************************************************************)
Within(v, lo, hi) == lo <= v /\ v <= hi

Distance(a, b) == IF a >= b THEN a - b ELSE b - a

\* What a new shape adds to the position the row had when the call began.
OffsetOf(out) ==
    [x |-> shapes[out.SHAPE].x - original_xy[out.label].x,
     y |-> shapes[out.SHAPE].y - original_xy[out.label].y]

AllGroupsReturned ==
    /\ dataframe # <<>>
    /\ \A k \in GroupKeys(dataframe) : jitter_calls[k].state = "returned"

\* C3: every new position is within [gmin + imin, gmax + imax] of the row's
\* original position on each axis, and a returned call holds exactly one new
\* shape per row of its group, in the group's row order.
C3_OffsetWithinRanges ==
    \A k \in H3Keys :
        LET out == jitter_calls[k].new_shape
            lo == group_range[1] + individual_range[1]
            hi == group_range[2] + individual_range[2]
        IN  /\ \A j \in 1..Len(out) :
                 /\ Within(OffsetOf(out[j]).x, lo, hi)
                 /\ Within(OffsetOf(out[j]).y, lo, hi)
            /\ jitter_calls[k].state = "returned" =>
                 /\ Len(out) = Len(GroupRows(dataframe, k))
                 /\ \A j \in 1..Len(out) : out[j].label = GroupRows(dataframe, k)[j]
                 /\ \A a, b \in 1..Len(out) : a # b => out[a].SHAPE # out[b].SHAPE

\* C3 witness: every group has returned and some row sits at the far corner
\* of the allowed square.
C3_Witness ==
    /\ AllGroupsReturned
    /\ \E k \in H3Keys : \E j \in 1..Len(jitter_calls[k].new_shape) :
         LET off == OffsetOf(jitter_calls[k].new_shape[j])
         IN  /\ off.x = group_range[2] + individual_range[2]
             /\ off.y = group_range[1] + individual_range[1]

\* C4: a call draws its group offset once and every row of the group is
\* shifted by it: what remains of a row's offset after taking the group
\* offset away is within individual_range on each axis, so two rows of one
\* group differ by at most imax - imin per axis; each group's call draws an
\* offset of its own.
C4_GroupOffsetShared ==
    \A k \in H3Keys :
        LET call == jitter_calls[k]
            out == call.new_shape
            width == individual_range[2] - individual_range[1]
        IN  /\ call.group_draws = IF call.state = "pending" THEN 0 ELSE 1
            /\ \A j \in 1..Len(out) :
                 /\ Within(OffsetOf(out[j]).x - call.group_jitter[1],
                           individual_range[1], individual_range[2])
                 /\ Within(OffsetOf(out[j]).y - call.group_jitter[2],
                           individual_range[1], individual_range[2])
            /\ \A a, b \in 1..Len(out) :
                 /\ Distance(OffsetOf(out[a]).x, OffsetOf(out[b]).x) <= width
                 /\ Distance(OffsetOf(out[a]).y, OffsetOf(out[b]).y) <= width

\* C4 witness: two groups returned with different group offsets, and two
\* rows of one group with different offsets.
C4_Witness ==
    /\ AllGroupsReturned
    /\ \E j, k \in GroupKeys(dataframe) :
         jitter_calls[j].group_jitter # jitter_calls[k].group_jitter
    /\ \E k \in GroupKeys(dataframe) :
         LET out == jitter_calls[k].new_shape
         IN  /\ Len(out) = 2
             /\ OffsetOf(out[1]) # OffsetOf(out[2])

\* C5: the shape dict of every input row holds the x and y it held before
\* the calls, and no new shape is an input row's dict.
C5_InputNotMutated ==
    /\ \A i \in 1..Len(dataframe) :
         /\ shapes[dataframe[i].SHAPE].x = original_xy[i].x
         /\ shapes[dataframe[i].SHAPE].y = original_xy[i].y
    /\ \A k \in H3Keys : \A j \in 1..Len(jitter_calls[k].new_shape) :
         \A i \in 1..Len(dataframe) :
             jitter_calls[k].new_shape[j].SHAPE # dataframe[i].SHAPE

\* C5 witness: every group has returned and every row was moved.
C5_Witness ==
    /\ AllGroupsReturned
    /\ \A k \in GroupKeys(dataframe) : \A j \in 1..Len(jitter_calls[k].new_shape) :
         LET off == OffsetOf(jitter_calls[k].new_shape[j])
         IN  off.x # 0 /\ off.y # 0

\* Ranges of the shape of process()'s: each centred on zero, the individual
\* range inside the group range.
LikeProcessRanges(group, individual) ==
    /\ group[1] = -group[2]
    /\ individual[1] = -individual[2]
    /\ 0 < individual[2]
    /\ individual[2] <= group[2]

\* On one axis, a group draw and an individual draw of process()'s ranges
\* that add up to nothing.
ProcessRangesCancel ==
    \E group \in randint(ProcessGroupRange), individual \in randint(ProcessIndividualRange) :
        /\ group # 0
        /\ Shifted(0, group, individual) = 0

\* C14 as stated: with ranges like process()'s, every new shape is at a
\* position other than the one its row had.
C14_NeverZeroOffset ==
    LikeProcessRanges(group_range, individual_range) =>
        \A k \in H3Keys : \A j \in 1..Len(jitter_calls[k].new_shape) :
            OffsetOf(jitter_calls[k].new_shape[j]) # [x |-> 0, y |-> 0]

\* C14 witness: with ranges like process()'s a call has returned whose
\* group offset is not zero on either axis and one of whose rows sits
\* exactly where it was, the individual draw having cancelled the group's;
\* the ranges (-150, 150) and (-20, 20) hold such draws too.
C14_Witness ==
    /\ LikeProcessRanges(group_range, individual_range)
    /\ LikeProcessRanges(ProcessGroupRange, ProcessIndividualRange)
    /\ AllGroupsReturned
    /\ \E k \in GroupKeys(dataframe) :
         /\ jitter_calls[k].group_jitter[1] # 0
         /\ jitter_calls[k].group_jitter[2] # 0
         /\ \E j \in 1..Len(jitter_calls[k].new_shape) :
              OffsetOf(jitter_calls[k].new_shape[j]) = [x |-> 0, y |-> 0]
    /\ ProcessRangesCancel

(***************************************************************************)
(* Properties of the county aggregator (SpecCounty).                       *)
(***************************************************************************)
UniqueNames(households) ==
    \A a, b \in 1..Len(households) : households[a].name = households[b].name => a = b

TestsIn(name) == Cardinality({i \in 1..Len(all_tests_df) : all_tests_df[i].county = name})

ReferenceNames == {household_df[i].name : i \in 1..Len(household_df)}

RowsNamed(name) == {j \in 1..Len(county_summary) : county_summary[j].name = name}

\* The household count the reference table reports for a county, as an integer.
ReferenceTotal(name) ==
    LET cell == (CHOOSE h \in {household_df[i] : i \in 1..Len(household_df)} :
                    h.name = name).total_households
    IN  IF cell.t = "int" THEN cell.n
        ELSE IF cell.s = <<"8", "7", "8", "0", "2">> THEN 87802
        ELSE -1

\* C6: with unique reference names, the summary has exactly one row for
\* every county that has a record and a reference entry and no other row;
\* a row's tests is the number of records of its county (same ids counted
\* each time), its total_households is the reference value, and its
\* percent_response is exactly tests / total_households (2 of 10 is 1/5,
\* 2 of 20 is 1/10; more tests than households gives more than 1).
C6_CountySummaryRows ==
    (county_state = "returned" /\ UniqueNames(household_df)) =>
        /\ \A name \in ReferenceNames :
             Cardinality(RowsNamed(name)) = IF TestsIn(name) > 0 THEN 1 ELSE 0
        /\ \A j \in 1..Len(county_summary) :
             LET row == county_summary[j]
             IN  /\ row.name \in ReferenceNames
                 /\ TestsIn(row.name) > 0
                 /\ row.tests = TestsIn(row.name)
                 /\ row.total_households = ReferenceTotal(row.name)
                 /\ row.percent_response.num * row.total_households
                      = row.tests * row.percent_response.den
                 /\ row.total_households # 0 => row.percent_response.den > 0
                 /\ (row.tests = 2 /\ row.total_households = 10) =>
                      row.percent_response = [num |-> 1, den |-> 5]
                 /\ (row.tests = 2 /\ row.total_households = 20) =>
                      row.percent_response = [num |-> 1, den |-> 10]

\* C6 witness: the households {Weber: 10, Utah: 20} with two tests each,
\* all four under the same id, summarised as 1/5 and 1/10, and nothing for
\* a county without a reference entry.
C6_Witness ==
    /\ county_state = "returned"
    /\ household_df = << [total_households |-> IntCell(10), name |-> WeberCounty],
                         [total_households |-> IntCell(20), name |-> UtahCounty] >>
    /\ all_tests_df = << [county |-> WeberCounty, id |-> 1], [county |-> WeberCounty, id |-> 1],
                         [county |-> UtahCounty, id |-> 1], [county |-> UtahCounty, id |-> 1] >>
    /\ Len(county_summary) = 2
    /\ \E j \in 1..2 : /\ county_summary[j].name = WeberCounty
                       /\ county_summary[j].tests = 2
                       /\ county_summary[j].percent_response = [num |-> 1, den |-> 5]
    /\ \E j \in 1..2 : /\ county_summary[j].name = UtahCounty
                       /\ county_summary[j].tests = 2
                       /\ county_summary[j].percent_response = [num |-> 1, den |-> 10]

(***************************************************************************)
(* Properties of the reference data normalization (SpecCensus).            *)
(***************************************************************************)
FipsCodes == {names_to_fips[i].fips : i \in 1..Len(names_to_fips)}

\* The cell of a data row under the header cell that reads `column`.
UnderHeader(cells, column) ==
    cells[CHOOSE p \in 1..Len(census_payload[1]) : census_payload[1][p] = column]

CodeOf(cells) == UnderHeader(cells, "state") \o UnderHeader(cells, "county")

\* The data rows (positions in the response) whose code is in the lookup table.
MatchedRows ==
    SelectSeq([i \in 1..(Len(census_payload) - 1) |-> i + 1],
              LAMBDA i : CodeOf(census_payload[i]) \in FipsCodes)

LookupName(code) ==
    (CHOOSE f \in {names_to_fips[i] : i \in 1..Len(names_to_fips)} : f.fips = code).name

CountySuffix == <<" ", "C", "o", "u", "n", "t", "y">>

\* Title case: a letter is upper case exactly when it starts a word.
IsTitleCased(str) ==
    \A i \in 1..Len(str) :
        IsCased(str[i]) =>
            IF i = 1 \/ ~IsCased(str[i - 1]) THEN IsUpper(str[i]) ELSE IsLower(str[i])

\* C7: the first row of the response is the header; every data row whose
\* state + county code is a FIPS code of the lookup table gives exactly one
\* output row, in order, whose name is the county's name in title case
\* followed by ' County' and whose total_households is the row's household
\* cell unchanged; the output has no state, county, cofips or fips column,
\* and a data row with any other code gives no row.
C7_CensusRows ==
    census_state = "returned" =>
        /\ Len(census_df) = Len(MatchedRows)
        /\ \A j \in 1..Len(census_df) :
             LET out == census_df[j]
                 cells == census_payload[MatchedRows[j]]
                 stem == SubSeq(out.name, 1, Len(out.name) - Len(CountySuffix))
             IN  /\ DOMAIN out = {"total_households", "name"}
                 /\ out.total_households = UnderHeader(cells, "DP02_0001E")
                 /\ Len(out.name) > Len(CountySuffix)
                 /\ SubSeq(out.name, Len(stem) + 1, Len(out.name)) = CountySuffix
                 /\ [i \in 1..Len(stem) |-> ToUpper(stem[i])] = LookupName(CodeOf(cells))
                 /\ IsTitleCased(stem)
                 /\ CodeOf(cells) = <<"4", "9", "0", "5", "7">> => out.name = WeberCounty
                 /\ CodeOf(cells) = <<"4", "9", "0", "0", "3">> => out.name = <<"B", "o", "x", " ", "E", "l", "d", "e", "r", " ", "C", "o", "u", "n", "t", "y">>
                 /\ CodeOf(cells) = <<"4", "9", "0", "3", "5">> => out.name = <<"S", "a", "l", "t", " ", "L", "a", "k", "e", " ", "C", "o", "u", "n", "t", "y">>

\* C7 witness: a response whose header puts state and county first, with
\* the row 49 / 057 / 87802 and a row of another state: one output row,
\* Weber County with 87802.
C7_Witness ==
    /\ census_state = "returned"
    /\ census_payload = << <<"state", "county", "DP02_0001E">>,
                           << <<"4", "9">>, <<"0", "5", "7">>, <<"8", "7", "8", "0", "2">> >>,
                           << <<"0", "4">>, <<"0", "5", "7">>, <<"0">> >> >>
    /\ Len(census_df) = 1
    /\ census_df[1].name = WeberCounty
    /\ census_df[1].total_households = <<"8", "7", "8", "0", "2">>

(***************************************************************************)
(* Properties of process() (SpecRun).                                      *)
(***************************************************************************)
AddedBy(r) == SelectSeq(feature_layer, LAMBDA f : f.added_by = r)

IdsOf(df) == {df[i].id : i \in 1..Len(df)}

Happened(r, event) == \E i \in 1..Len(events[r]) : events[r][i] = event

\* C8: _get_secrets comes first.  With the mounted folder present only it is
\* consulted and only the mounted file is read; without it the local folder
\* is consulted next and the local file read; with neither folder the run
\* ends in FileNotFoundError.  A run without secrets has done no logging
\* setup, read, fetch or upload, and holds no data.
C8_SecretsFirst ==
    \A r \in Runs :
        /\ pc[r] = "get_secrets" =>
             events[r] = <<>> /\ locals[r] = NoLocals /\ AddedBy(r) = <<>>
        /\ pc[r] # "get_secrets" =>
             /\ MountedFolder \in secret_paths =>
                  /\ consulted[r] = <<MountedFolder>>
                  /\ secrets[r].read = MountedFile
                  /\ secrets[r].source = IF MountedFile \in secret_paths THEN "mounted" ELSE "none"
             /\ (MountedFolder \notin secret_paths /\ LocalFolder \in secret_paths) =>
                  /\ consulted[r] = <<MountedFolder, LocalFolder>>
                  /\ secrets[r].read = LocalFile
                  /\ secrets[r].source = IF LocalFile \in secret_paths THEN "local" ELSE "none"
             /\ (MountedFolder \notin secret_paths /\ LocalFolder \notin secret_paths) =>
                  /\ secrets[r].read = "none"
                  /\ secrets[r].source = "none"
             /\ secrets[r].source = "none" =>
                  /\ pc[r] = "failed"
                  /\ error[r] = "FileNotFoundError"
                  /\ events[r] = <<>>
                  /\ locals[r] = NoLocals
                  /\ AddedBy(r) = <<>>

\* C8 witness: neither folder exists and a run has ended in
\* FileNotFoundError with no effect.
C8_Witness ==
    /\ secret_paths = {}
    /\ pc["run1"] = "failed"
    /\ error["run1"] = "FileNotFoundError"
    /\ events["run1"] = <<>>

\* C9: what a run passes to add_features, and so every feature it adds, is
\* a record it fetched whose id was not in the live dataset it read; and
\* while no two runs have overlapped no id is in the layer twice.
C9_OnlyNewRecordsAdded ==
    /\ \A r \in Runs :
         /\ IdsOf(locals[r].upload_df) \subseteq IdsOf(locals[r].speedtest_df) \ locals[r].live_df
         /\ IdsOf(AddedBy(r)) \subseteq IdsOf(locals[r].upload_df)
         /\ \A i \in 1..Len(locals[r].speedtest_df) :
              locals[r].speedtest_df[i].id \in locals[r].live_df =>
                  locals[r].speedtest_df[i].id \notin IdsOf(AddedBy(r))
    /\ ~overlapped =>
         \A a, b \in 1..Len(feature_layer) :
             feature_layer[a].id = feature_layer[b].id => a = b

\* C9 witness: two runs, one after the other; the second fetched record 1,
\* found it live and added only record 3.
C9_Witness ==
    /\ ~overlapped
    /\ IdsOf(AddedBy("run1")) = {1}
    /\ 1 \in IdsOf(locals["run2"].speedtest_df)
    /\ 1 \in locals["run2"].live_df
    /\ IdsOf(AddedBy("run2")) = {3}

CountyDone(r) == Happened(r, "calc_county_summary")

IsInstitution(row) == row.ispinfo \in INSTITUTIONS_TO_REMOVE

\* C10 as stated: every fetched record, institutions' included, is handed
\* to the county aggregator.
C10_AggregatorFedRaw ==
    \A r \in Runs :
        CountyDone(r) => IdsOf(locals[r].speedtest_df) \subseteq IdsOf(locals[r].all_tests_df)

\* C10 amended: the county aggregator is fed every fetched record whose
\* ispinfo is not on the removal list, live or not, and no record whose
\* ispinfo is on it; each county row counts exactly those records.
C10_AggregatorFedNonInstitutions ==
    \A r \in Runs :
        CountyDone(r) =>
            LET fetched == locals[r].speedtest_df
                fed == locals[r].all_tests_df
            IN  /\ \A i \in 1..Len(fetched) :
                     (fetched[i].id \in IdsOf(fed)) = ~IsInstitution(fetched[i])
                /\ IdsOf(fed) \subseteq IdsOf(fetched)
                /\ Len(fed) = Cardinality(IdsOf(fed))
                /\ \A j \in 1..Len(locals[r].county_info_df) :
                     LET row == locals[r].county_info_df[j]
                     IN  row.tests = Cardinality({i \in 1..Len(fetched) :
                                         /\ fetched[i].county = row.name
                                         /\ ~IsInstitution(fetched[i])})

\* C10 witness: a run that fetched record 1, already live, and record 2, an
\* institution's, and counted one test for Weber County.
C10_Witness ==
    \E r \in Runs :
        /\ CountyDone(r)
        /\ 1 \in locals[r].live_df
        /\ IdsOf(locals[r].speedtest_df) = {1, 2}
        /\ Len(locals[r].county_info_df) = 1
        /\ locals[r].county_info_df[1].name = WeberCounty
        /\ locals[r].county_info_df[1].tests = 1

\* Every `b` in the run's events has an `a` before it.
Precedes(r, a, b) ==
    \A j \in 1..Len(events[r]) :
        events[r][j] = b => \E i \in 1..(j - 1) : events[r][i] = a

TimesDone(r, event) == Cardinality({i \in 1..Len(events[r]) : events[r][i] = event})

UploadedShape == [wkid |-> 4326, jittered |-> TRUE, jittered_in |-> 26912]

\* C11: in every run the projection to wkid 26912 precedes the jitter, the
\* jitter precedes the projection to wkid 4326 and that precedes the upload,
\* each happening at most once; when the jitter engine is about to be called
\* every cleaned record is un-jittered in wkid 26912, every jittered shape
\* was jittered in wkid 26912, and every record of the upload payload and
\* every feature a run added is a jittered shape back in wkid 4326.
C11_JitterBetweenProjections ==
    \A r \in Runs :
        /\ Precedes(r, "project_26912", "jitter")
        /\ Precedes(r, "jitter", "project_4326")
        /\ Precedes(r, "project_4326", "add_features")
        /\ \A e \in {"project_26912", "jitter", "project_4326", "add_features"} :
             TimesDone(r, e) <= 1
        /\ locals[r].upload_df # <<>> => Happened(r, "project_4326")
        /\ pc[r] = "jitter" =>
             \A i \in 1..Len(locals[r].cleaned_df) :
                 locals[r].cleaned_df[i].SHAPE = Geometry(26912)
        /\ \A i \in 1..Len(locals[r].cleaned_df) :
             locals[r].cleaned_df[i].SHAPE.jittered =>
                 locals[r].cleaned_df[i].SHAPE.jittered_in = 26912
        /\ \A i \in 1..Len(locals[r].upload_df) :
             locals[r].upload_df[i].SHAPE = UploadedShape
        /\ \A i \in 1..Len(AddedBy(r)) : AddedBy(r)[i].SHAPE = UploadedShape

\* C11 witness: a run has uploaded record 1, jittered in wkid 26912 and
\* projected back to wkid 4326.
C11_Witness ==
    /\ Happened("run1", "add_features")
    /\ Len(AddedBy("run1")) = 1
    /\ AddedBy("run1")[1].id = 1
    /\ AddedBy("run1")[1].SHAPE = UploadedShape

\* C12 as stated, in the form a finite run refutes: a run that has its
\* secrets and has met no failing external call is still on its way or has
\* sent its completion notification, it has not stopped short of it; and
\* the notification is sent once, after the points were added and the
\* county summaries updated.
C12_RunCompletes ==
    \A r \in Runs :
        /\ (secrets[r].source # "none" /\ error[r] # "ConnectionError") =>
              Happened(r, "notify") \/ pc[r] # "failed"
        /\ Happened(r, "notify") =>
              /\ TimesDone(r, "notify") = 1
              /\ Precedes(r, "add_features", "notify")
              /\ Precedes(r, "update_features", "notify")

\* C12 witness: a run that had its secrets and met no failing call has
\* uploaded its points and computed the county summaries, and ended in
\* AttributeError without reading or updating the county layer and without
\* a notification.
C12_Witness ==
    /\ secrets["run1"].source = "mounted"
    /\ pc["run1"] = "failed"
    /\ error["run1"] = "AttributeError"
    /\ Happened("run1", "add_features")
    /\ Len(AddedBy("run1")) = 2
    /\ Happened("run1", "calc_county_summary")
    /\ ~Happened("run1", "read_live_counties")
    /\ ~Happened("run1", "notify")

TimesInLayer(id) == Cardinality({i \in 1..Len(feature_layer) : feature_layer[i].id = id})

\* The ids a run found to be new and kept after the institution filter.
NewIds(r) == IdsOf(RemoveInstitutions(locals[r].new_data_df))

\* C13: nothing keeps two overlapping runs from adding the same record.
\* Whenever both runs read the live dataset without an id in it, fetched
\* the id's record and went on to add their features, the layer holds the
\* id twice; and the layer holds an id twice only so: the two features were
\* added by different runs that overlapped, neither of which saw the id in
\* the live dataset it read (with runs one at a time no id is held twice).
C13_OverlapAddsTwice ==
    /\ \A id \in 1..Len(SpeedtestRecords) :
         (\A r \in Runs : Happened(r, "add_features") /\ id \in NewIds(r)) =>
             TimesInLayer(id) = 2
    /\ \A a, b \in 1..Len(feature_layer) :
         (a # b /\ feature_layer[a].id = feature_layer[b].id) =>
             /\ overlapped
             /\ feature_layer[a].added_by # feature_layer[b].added_by
             /\ \A r \in Runs :
                  /\ feature_layer[a].id \notin locals[r].live_df
                  /\ feature_layer[a].id \in IdsOf(locals[r].speedtest_df)

\* C13 witness: two overlapping runs both read the empty layer, both
\* fetched record 1, and the layer holds id 1 twice, once from each run.
C13_Witness ==
    /\ overlapped
    /\ \A r \in Runs : locals[r].live_df = {} /\ 1 \in IdsOf(AddedBy(r))
    /\ TimesInLayer(1) = 2

=============================================================================
